---- MODULE Spec2Model ----
(***************************************************************************)
(* A model of scripts/md2gemini.py: the Markdown to Gemtext converter.     *)
(*                                                                         *)
(* Strings are sequences of one-character strings.  Every component of the *)
(* script has a specification of its own:                                  *)
(*   SpecLinks    convert_links                                            *)
(*   SpecSplit    parse_frontmatter                                        *)
(*   SpecConvert  convert_markdown_to_gemtext                              *)
(*   SpecIndex    create_gemini_index                                      *)
(*   SpecBatch    process_hugo_content                                     *)
(***************************************************************************)
EXTENDS Integers, Sequences, FiniteSets, TLC

VARIABLES
    \* convert_links
    text, final_text, lpc,
    \* parse_frontmatter
    raw, yaml_answer, split_result, spc,
    \* convert_markdown_to_gemtext
    content, doc_yaml, frontmatter, body, body_lines, lines, in_code_block, idx, cpc,
    \* create_gemini_index
    dir_listing, di, posts, index_file, ipc,
    \* process_hugo_content
    walk, k, handles, doc, gem_path, out_files, processed, printed, raised, bpc

linkVars  == <<text, final_text, lpc>>
splitVars == <<raw, yaml_answer, split_result, spc>>
convVars  ==
    <<content, doc_yaml, frontmatter, body, body_lines, lines, in_code_block, idx, cpc>>
indexVars == <<dir_listing, di, posts, index_file, ipc>>
batchVars ==
    <<walk, k, handles, doc, gem_path, out_files, processed, printed, raised, bpc>>
vars == <<linkVars, splitVars, convVars, indexVars, batchVars>>

(***************************************************************************)
(* Strings                                                                 *)
(***************************************************************************)
NL == "\n"
\* A TLA+ string cannot hold a backquote: the model writes it as an apostrophe.
BQ == "'"

\* str(s): a TLA+ tuple of one-character strings stands for a Python str.
Max(S) == CHOOSE x \in S : \A y \in S : y <= x

\* s[p:p+len(t)] == t  (1-based p)
IsAt(s, p, t) ==
    /\ p >= 1
    /\ p + Len(t) - 1 <= Len(s)
    /\ \A j \in 1..Len(t) : s[p + j - 1] = t[j]

\* str.startswith / str.endswith / the `in` operator on strings
StartsWith(s, t) == IsAt(s, 1, t)
EndsWith(s, t) == IsAt(s, Len(s) - Len(t) + 1, t)
Contains(s, t) == \E p \in 1..(Len(s) + 1) : IsAt(s, p, t)

\* The length of the longest run of characters of cls in s from position p.
RunLen(s, p, cls) ==
    Max({n \in 0..(Len(s) - p + 1) : \A j \in p..(p + n - 1) : s[j] \in cls})

\* Python slicing s[a:] and s[a:b] with 1-based inclusive bounds.
Slice(s, a, b) == IF a > b THEN <<>> ELSE SubSeq(s, a, b)

\* sep.join(list)
RECURSIVE Join(_, _)
Join(list, sep) ==
    IF list = <<>> THEN <<>>
    ELSE IF Len(list) = 1 THEN list[1]
    ELSE list[1] \o sep \o Join(Tail(list), sep)

\* The characters the model's texts are written in.
Letters == {"a", "b", "u", "v", "x", "y", "T", "S", "N", "o", "n", "e"}
Digits == {"0", "1", "2", "3", "4", "5"}
WordChars == Letters \cup Digits \cup {"_"}
Whitespace == {" ", NL}
Punct == {"#", "*", BQ, "{", "}", "<", "%", ">", "-", "[", "]", "(", ")", ":", "=", ".", "/"}
Chars == WordChars \cup Whitespace \cup Punct

\* str.strip()
Strip(s) ==
    LET lead == RunLen(s, 1, Whitespace)
        rest == Slice(s, lead + 1, Len(s))
        keep == Max({n \in 0..Len(rest) : n = 0 \/ rest[n] \notin Whitespace})
    IN  Slice(rest, 1, keep)

(***************************************************************************)
(* convert_links                                                           *)
(***************************************************************************)
\* link_pattern = r'\[([^\]]+)\]\(([^)]+)\)' tried at position p: the end of
\* the match (exclusive) and its two groups, or <<>> when it does not match.
\* Each class excludes the character that must follow it, so the greedy run
\* is the only candidate.
LinkMatchAt(s, p) ==
    IF ~IsAt(s, p, <<"[">>) THEN <<>>
    ELSE LET n == RunLen(s, p + 1, Chars \ {"]"})
             q == p + 1 + n
         IN  IF n = 0 \/ ~IsAt(s, q, <<"]", "(">>) THEN <<>>
             ELSE LET m == RunLen(s, q + 2, Chars \ {")"})
                      r == q + 2 + m
                  IN  IF m = 0 \/ ~IsAt(s, r, <<")">>) THEN <<>>
                      ELSE <<r + 1, SubSeq(s, p + 1, q - 1), SubSeq(s, q + 2, r - 1)>>

\* re.split(link_pattern, s): the text before each match, then the match's
\* two groups, and at last the text after the last match.
RECURSIVE LinkSplit(_, _, _)
LinkSplit(s, p, from) ==
    IF p > Len(s) THEN <<Slice(s, from, Len(s))>>
    ELSE LET m == LinkMatchAt(s, p)
         IN  IF m = <<>> THEN LinkSplit(s, p + 1, from)
             ELSE <<Slice(s, from, p - 1), m[2], m[3]>> \o LinkSplit(s, m[1], m[1])

\* f"=> {link_url} {link_text}"
LinkLine(link_url, link_text) == <<"=", ">", " ">> \o link_url \o <<" ">> \o link_text

\* The while loop of convert_links; i is the 0-based index into parts.
RECURSIVE LinkLoop(_, _, _, _)
LinkLoop(parts, i, result_lines, collected_links) ==
    IF i >= Len(parts) THEN <<result_lines, collected_links>>
    ELSE IF i + 2 < Len(parts)
         THEN LinkLoop(parts, i + 3, Append(result_lines, parts[i + 1]),
                       Append(collected_links, LinkLine(parts[i + 3], parts[i + 2])))
         ELSE LinkLoop(parts, i + 1, Append(result_lines, parts[i + 1]), collected_links)

convert_links_spaced(s) ==
    LET parts == LinkSplit(s, 1, 1)
        done == LinkLoop(parts, 0, <<>>, <<>>)
        joined == Join(done[1], <<" ">>)
    IN  IF done[2] # <<>> THEN joined \o <<NL>> \o Join(done[2], <<NL>>) ELSE joined

convert_links(s) ==
    LET parts == LinkSplit(s, 1, 1)
        done == LinkLoop(parts, 0, <<>>, <<>>)
        joined == Join(done[1], <<>>)
    IN  IF done[2] # <<>> THEN joined \o <<NL>> \o Join(done[2], <<NL>>) ELSE joined

(***************************************************************************)
(* Python values: a str, None, a date, a datetime, a dict, a list, an int  *)
(***************************************************************************)
Str(v) == [t |-> "str", v |-> v]
None == [t |-> "None"]
\* datetime.date(...) and datetime.datetime(...): day is the day as
\* '%Y-%m-%d' writes it, clock the time of day as str() writes it.
Date(day) == [t |-> "date", day |-> day]
DateTime(day, clock) == [t |-> "datetime", day |-> day, clock |-> clock]
Dict(m) == [t |-> "dict", m |-> m]
List(n) == [t |-> "list", len |-> n]
PyInt(n) == [t |-> "int", n |-> n]
\* {}
EmptyDict == Dict(<<>>)

\* bool(v)
Truthy(v) ==
    CASE v.t = "str" -> v.v # <<>>
      [] v.t = "None" -> FALSE
      [] v.t = "dict" -> DOMAIN v.m # {}
      [] v.t = "list" -> v.len > 0
      [] v.t = "int" -> v.n # 0
      [] OTHER -> TRUE

\* isinstance(v, datetime): a datetime.date is not a datetime.datetime.
IsDateTime(v) == v.t = "datetime"

\* str(v) of the values a frontmatter field holds
PyStr(v) ==
    CASE v.t = "str" -> v.v
      [] v.t = "None" -> <<"N", "o", "n", "e">>
      [] v.t = "date" -> v.day
      [] v.t = "datetime" -> v.day \o <<" ">> \o v.clock
      [] v.t = "int" -> IF v.n = 0 THEN <<"0">> ELSE <<"1">>

\* date.strftime('%Y-%m-%d')
StrfDay(v) == v.day

(***************************************************************************)
(* parse_frontmatter                                                       *)
(***************************************************************************)
Delim == <<"-", "-", "-">>

\* str.find(t) from position p on: the first position of t, or 0.
Find(s, t, p) ==
    LET at == {q \in p..(Len(s) + 1) : IsAt(s, q, t)}
    IN  IF at = {} THEN 0 ELSE CHOOSE q \in at : \A r \in at : q <= r

\* s.split(sep, maxsplit)
RECURSIVE Split(_, _, _)
Split(s, sep, maxsplit) ==
    LET q == Find(s, sep, 1)
    IN  IF maxsplit = 0 \/ q = 0 THEN <<s>>
        ELSE <<Slice(s, 1, q - 1)>> \o Split(Slice(s, q + Len(sep), Len(s)), sep, maxsplit - 1)

\* yaml.safe_load is PyYAML's: what it answers for the block between the
\* delimiters is an input of the model.  It raises yaml.YAMLError
\* (YAMLError below) or returns a value.
YAMLError == [t |-> "YAMLError"]
Unused == [t |-> "unused"]

\* parse_frontmatter(content), yaml being yaml.safe_load's answer for
\* parts[1]: the pair (frontmatter, body).
parse_frontmatter_short(c, yaml) ==
    IF StartsWith(c, Delim)
    THEN LET parts == Split(c, Delim, 2)
         IN  IF Len(parts) >= 3 /\ yaml # YAMLError
             THEN <<IF Truthy(yaml) THEN yaml ELSE EmptyDict, Strip(parts[3])>>
             ELSE <<EmptyDict, IF Len(parts) >= 3 THEN Strip(parts[3]) ELSE c>>
    ELSE <<EmptyDict, c>>

parse_frontmatter(c, yaml) ==
    IF StartsWith(c, Delim)
    THEN LET parts == Split(c, Delim, 2)
         IN  IF Len(parts) >= 3 /\ yaml # YAMLError
             THEN <<IF Truthy(yaml) THEN yaml ELSE EmptyDict, Strip(parts[3])>>
             ELSE <<EmptyDict, c>>
    ELSE <<EmptyDict, c>>

\* Whether parse_frontmatter(c) reaches its call of yaml.safe_load, and the
\* block it passes.
CallsYaml(c) == StartsWith(c, Delim) /\ Len(Split(c, Delim, 2)) >= 3
YamlBlock(c) == Split(c, Delim, 2)[2]

(***************************************************************************)
(* convert_markdown_to_gemtext                                             *)
(***************************************************************************)
\* frontmatter.get(key): None when the key is missing.
Get(fm, key) == IF key \in DOMAIN fm.m THEN fm.m[key] ELSE None

\* Lines 73-75: the lines the title adds.
TitleBlock(fm) ==
    IF Truthy(Get(fm, "title"))
    THEN << <<"#", " ">> \o PyStr(fm.m["title"]), <<>> >>
    ELSE <<>>

\* Lines 78-83: the lines the date adds.
DateBlock_unformatted(fm) ==
    IF Truthy(Get(fm, "date"))
    THEN << <<"D", "a", "t", "a", ":", " ">> \o PyStr(fm.m["date"]), <<>> >>
    ELSE <<>>

DateBlock(fm) ==
    IF Truthy(Get(fm, "date"))
    THEN LET date == IF IsDateTime(fm.m["date"]) THEN Str(StrfDay(fm.m["date"]))
                                               ELSE fm.m["date"]
         IN  << <<"D", "a", "t", "a", ":", " ">> \o PyStr(date), <<>> >>
    ELSE <<>>

\* Lines 86-88: the lines the summary adds (the value itself, a str).
SummaryBlock(fm) ==
    IF Truthy(Get(fm, "summary")) THEN <<fm.m["summary"].v, <<>>>> ELSE <<>>

Fence == <<BQ, BQ, BQ>>

\* The pattern open([cls]+)close tried at position p, cls holding no first
\* character of close: <<the end of the match (exclusive), the group>>, or
\* <<>> when it does not match.
WrappedMatchAt(s, p, open, cls, close) ==
    IF ~IsAt(s, p, open) THEN <<>>
    ELSE LET q == p + Len(open)
             n == RunLen(s, q, cls)
         IN  IF n = 0 \/ ~IsAt(s, q + n, close) THEN <<>>
             ELSE <<q + n + Len(close), SubSeq(s, q, q + n - 1)>>

\* re.sub of such a pattern from position p on, each match replaced by its
\* group (keep) or by nothing.
RECURSIVE ReSub(_, _, _, _, _, _)
ReSub(s, p, open, cls, close, keep) ==
    IF p > Len(s) THEN <<>>
    ELSE LET m == WrappedMatchAt(s, p, open, cls, close)
         IN  IF m = <<>> THEN <<s[p]>> \o ReSub(s, p + 1, open, cls, close, keep)
             ELSE (IF keep THEN m[2] ELSE <<>>) \o ReSub(s, m[1], open, cls, close, keep)

\* re.sub(r'\*\*([^*]+)\*\*', r'\1', s)
Unbold(s) == ReSub(s, 1, <<"*", "*">>, Chars \ {"*"}, <<"*", "*">>, TRUE)
\* re.sub(r'\*([^*]+)\*', r'\1', s)
Unitalic(s) == ReSub(s, 1, <<"*">>, Chars \ {"*"}, <<"*">>, TRUE)
\* re.sub of a backquoted span by its inside
Uncode(s) == ReSub(s, 1, <<BQ>>, Chars \ {BQ}, <<BQ>>, TRUE)
\* re.sub(r':[\w]+:', '', s)
Unemoji(s) == ReSub(s, 1, <<":">>, WordChars, <<":">>, FALSE)

\* re.match(r'^(#{1,3})\s*(.+)$', s): <<len(group 1), group 2>>, or <<>>.
\* The engine tries the most '#' first and, for them, the most whitespace.
HeadingMatch(s) ==
    LET fits == {c \in (1..3) \X (0..Len(s)) :
                    /\ c[1] + c[2] < Len(s)
                    /\ \A j \in 1..c[1] : s[j] = "#"
                    /\ \A j \in (c[1] + 1)..(c[1] + c[2]) : s[j] \in Whitespace}
    IN  IF fits = {} THEN <<>>
        ELSE LET level == Max({c[1] : c \in fits})
                 white == Max({c[2] : c \in {d \in fits : d[1] = level}})
             IN  <<level, Slice(s, level + white + 1, Len(s))>>

Hashes(n) == [j \in 1..n |-> "#"]

\* The conditions of the loop body, in the order of the code.
IsFence(line) == StartsWith(Strip(line), Fence)
HasShortcode(line) == Contains(line, <<"{", "{", "<">>) \/ Contains(line, <<"{", "{", "%">>)
IsHeader(line) == StartsWith(line, <<"#">>) /\ HeadingMatch(line) # <<>>
IsBoldHeader(line) ==
    StartsWith(Strip(line), <<"*", "*">>) /\ EndsWith(Strip(line), <<"*", "*">>)
IsListItem(line) ==
    StartsWith(Strip(line), <<"-", " ">>) \/ StartsWith(Strip(line), <<"*", " ">>)
IsBlockquote(line) == StartsWith(Strip(line), <<">">>)

\* Which branch of the loop body (lines 96-155) takes the line.
Classify_header_first(line, in_code) ==
    IF IsFence(line) THEN "fence"
    ELSE IF in_code THEN "code"
    ELSE IF IsHeader(line) THEN "header"
    ELSE IF HasShortcode(line) THEN "shortcode"
    ELSE IF IsBoldHeader(line) THEN "bold"
    ELSE IF IsListItem(line) THEN "list"
    ELSE IF IsBlockquote(line) THEN "blockquote"
    ELSE "text"

Classify(line, in_code) ==
    IF IsFence(line) THEN "fence"
    ELSE IF in_code THEN "code"
    ELSE IF HasShortcode(line) THEN "shortcode"
    ELSE IF IsHeader(line) THEN "header"
    ELSE IF IsBoldHeader(line) THEN "bold"
    ELSE IF IsListItem(line) THEN "list"
    ELSE IF IsBlockquote(line) THEN "blockquote"
    ELSE "text"

\* Lines 133-135: the inline formatting a list item loses.
ListText(s) == Uncode(Unitalic(Unbold(s)))
\* Lines 146-153: the regular text's line.
RegularText(line) == convert_links(Unemoji(Uncode(Unitalic(Unbold(line)))))

\* What the branch appends to lines.
Emitted_stripped(kind, line) ==
    CASE kind = "fence" -> <<Fence>>
      [] kind = "code" -> <<Strip(line)>>
      [] kind = "shortcode" -> <<>>
      [] kind = "header" ->
            <<Hashes(HeadingMatch(line)[1]) \o <<" ">> \o HeadingMatch(line)[2]>>
      [] kind = "bold" ->
            << <<"#", "#", " ">> \o Slice(Strip(line), 3, Len(Strip(line)) - 2) >>
      [] kind = "list" ->
            << <<"*", " ">> \o ListText(Slice(Strip(line), 3, Len(Strip(line)))) >>
      [] kind = "blockquote" ->
            << <<">", " ">> \o Strip(Slice(Strip(line), 2, Len(Strip(line)))) >>
      [] kind = "text" -> <<RegularText(line)>>

Emitted(kind, line) ==
    CASE kind = "fence" -> <<Fence>>
      [] kind = "code" -> <<line>>
      [] kind = "shortcode" -> <<>>
      [] kind = "header" ->
            <<Hashes(HeadingMatch(line)[1]) \o <<" ">> \o HeadingMatch(line)[2]>>
      [] kind = "bold" ->
            << <<"#", "#", " ">> \o Slice(Strip(line), 3, Len(Strip(line)) - 2) >>
      [] kind = "list" ->
            << <<"*", " ">> \o ListText(Slice(Strip(line), 3, Len(Strip(line)))) >>
      [] kind = "blockquote" ->
            << <<">", " ">> \o Strip(Slice(Strip(line), 2, Len(Strip(line)))) >>
      [] kind = "text" -> <<RegularText(line)>>

\* body.split('\n'), the list the loop of line 94 goes through
BodyLines == body_lines
\* The line of the current iteration; idx lines are behind.
Line == BodyLines[idx + 1]
InLoop == cpc = "loop" /\ idx < Len(BodyLines)

(***************************************************************************)
(* create_gemini_index                                                     *)
(***************************************************************************)
\* ord(c) of the characters dates are written in.
Ord(c) ==
    CASE c = " " -> 32 [] c = "-" -> 45 [] c = "0" -> 48 [] c = "1" -> 49
      [] c = "2" -> 50 [] c = "3" -> 51 [] c = "4" -> 52 [] c = "5" -> 53
      [] c = ":" -> 58 [] c = "N" -> 78 [] c = "e" -> 101 [] c = "n" -> 110
      [] c = "o" -> 111

\* a < b on str: the first difference decides, a proper prefix is smaller.
StrLess(a, b) ==
    \E i \in 1..(Len(b)) :
        /\ \A j \in 1..(i - 1) : j <= Len(a) /\ a[j] = b[j]
        /\ (i > Len(a) \/ (i <= Len(a) /\ Ord(a[i]) < Ord(b[i])))
        /\ i - 1 <= Len(a)

\* list.sort(key=lambda x: x['date'], reverse=True): x goes behind every
\* element whose date is not smaller (the sort is stable, also reversed).
RECURSIVE InsertByDate(_, _)
InsertByDate_ascending(sorted, x) ==
    IF sorted = <<>> THEN <<x>>
    ELSE IF StrLess(x.date, sorted[1].date) THEN <<x>> \o sorted
    ELSE <<sorted[1]>> \o InsertByDate(Tail(sorted), x)

InsertByDate(sorted, x) ==
    IF sorted = <<>> THEN <<x>>
    ELSE IF StrLess(sorted[1].date, x.date) THEN <<x>> \o sorted
    ELSE <<sorted[1]>> \o InsertByDate(Tail(sorted), x)

RECURSIVE SortByDateReverse(_, _)
SortByDateReverse(list, sorted) ==
    IF list = <<>> THEN sorted
    ELSE SortByDateReverse(Tail(list), InsertByDate(sorted, list[1]))

\* Lines 210-217.
IndexHeader ==
    << <<"#", " ", "B", "l", "o", "g">>, <<>>,
       <<"W", "i", "t", "a", "j">>, <<>>,
       <<"#", "#", " ", "P", "o", "s", "t", "y">>, <<>> >>

\* Lines 232-241: the entry of a post, fm being its frontmatter (a dict).
PostEntry(name, fm) ==
    LET title == IF "title" \in DOMAIN fm.m THEN fm.m["title"] ELSE Str(name)
        date == IF "date" \in DOMAIN fm.m THEN fm.m["date"] ELSE Str(<<>>)
        shown == IF IsDateTime(date) THEN Str(StrfDay(date)) ELSE date
    IN  [title |-> PyStr(title),
         date |-> PyStr(shown),
         path |-> <<"b", "l", "o", "g", "/">> \o name \o <<".", "g", "m", "i">>]

\* Line 248.
PostLine(post) ==
    <<"=", ">", " ">> \o post.path \o <<" ", "[">> \o post.date \o <<"]", " ">> \o post.title

(***************************************************************************)
(* process_hugo_content                                                    *)
(***************************************************************************)
\* A path is the sequence of its names; the path '.' has none.
\* PurePath.name
Name(path) == IF path = <<>> THEN <<>> ELSE path[Len(path)]
\* PurePath.parent
Parent(path) == Slice(path, 1, Len(path) - 1)

\* PurePath.suffix of a name: from its last '.', unless that is its first or
\* its last character.
SuffixAt(name) ==
    LET dots == {i \in 1..Len(name) : name[i] = "."}
    IN  IF dots = {} THEN 0
        ELSE IF Max(dots) > 1 /\ Max(dots) < Len(name) THEN Max(dots) ELSE 0

\* PurePath.with_suffix raises ValueError for a path with an empty name.
WithSuffixRaises(path) == Name(path) = <<>>
\* PurePath.with_suffix(suffix)
WithSuffix(path, suffix) ==
    LET name == Name(path)
        stem == IF SuffixAt(name) = 0 THEN name ELSE Slice(name, 1, SuffixAt(name) - 1)
    IN  Parent(path) \o <<stem \o suffix>>

Gmi == <<".", "g", "m", "i">>
IndexMd == <<"i", "n", "d", "e", "x", ".", "m", "d">>
SectionMd == <<"_", "i", "n", "d", "e", "x", ".", "m", "d">>
\* output_path / 'index.gmi', relative to output_path
IndexGmi == << <<"i", "n", "d", "e", "x", ".", "g", "m", "i">> >>

\* Lines 184-190: the path the file is written to, relative to output_path,
\* and whether computing it raises.
GemPathRaises(rel_path) == Name(rel_path) = IndexMd /\ WithSuffixRaises(Parent(rel_path))
GemPath(rel_path) ==
    IF Name(rel_path) = IndexMd THEN WithSuffix(Parent(rel_path), Gmi)
    ELSE WithSuffix(rel_path, Gmi)

\* Leaving a with block closes its file.
CloseOnExit_leaked(open, h) == open

CloseOnExit(open, h) == open \ {h}

\* dict[key] = value
Put(files, key, value) ==
    [x \in DOMAIN files \cup {key} |-> IF x = key THEN value ELSE files[x]]

(***************************************************************************)
(* Inputs: texts put together from a few pieces                            *)
(***************************************************************************)
RECURSIVE Flatten(_)
Flatten(pieces) == IF pieces = <<>> THEN <<>> ELSE pieces[1] \o Flatten(Tail(pieces))

\* All sequences of at most n elements of S.
SeqsUpTo(S, n) == UNION {[1..m -> S] : m \in 0..n}

MaxLinkPieces == 4
LinkPieces ==
    { <<"x">>, <<" ">>, <<"[">>, <<"]">>, <<"(">>, <<")">>,
      <<"[", "a", "]", "(", "u", ")">>, <<"[", "b", "]", "(", "v", ")">> }
LinkTexts == {Flatten(ps) : ps \in SeqsUpTo(LinkPieces, MaxLinkPieces)}

(***************************************************************************)
(* The components at rest: each specification runs one component and       *)
(* leaves the others' variables as they are.                               *)
(***************************************************************************)
LinkIdle == text = <<>> /\ final_text = <<>> /\ lpc = "idle"
SplitIdle == raw = <<>> /\ yaml_answer = Unused /\ split_result = <<>> /\ spc = "idle"
ConvIdle ==
    /\ content = <<>> /\ doc_yaml = Unused /\ frontmatter = Unused /\ body = <<>>
    /\ body_lines = <<>>
    /\ lines = <<>> /\ in_code_block = FALSE /\ idx = 0 /\ cpc = "idle"
IndexIdle ==
    dir_listing = <<>> /\ di = 0 /\ posts = <<>> /\ index_file = <<>> /\ ipc = "idle"
BatchIdle ==
    /\ walk = <<>> /\ k = 0 /\ handles = {} /\ doc = <<>> /\ gem_path = <<>>
    /\ out_files = <<>> /\ processed = 0 /\ printed = <<>> /\ raised = "none"
    /\ bpc = "idle"

(***************************************************************************)
(* SpecLinks: convert_links applied to one text                            *)
(***************************************************************************)
InitLinks ==
    /\ text \in LinkTexts /\ final_text = <<>> /\ lpc = "call"
    /\ SplitIdle /\ ConvIdle /\ IndexIdle /\ BatchIdle

ConvertLinks ==
    /\ lpc = "call"
    /\ final_text' = convert_links(text)
    /\ lpc' = "done"
    /\ UNCHANGED <<text, splitVars, convVars, indexVars, batchVars>>

NextLinks == ConvertLinks
SpecLinks == InitLinks /\ [][NextLinks]_vars

\* The '[label](url)' tokens of s as a reader finds them from the left, none
\* overlapping an earlier one: each with its first and last position.
RECURSIVE LinkTokensFrom(_, _)
LinkTokensFrom(s, p) ==
    IF p > Len(s) THEN <<>>
    ELSE LET m == LinkMatchAt(s, p)
         IN  IF m = <<>> THEN LinkTokensFrom(s, p + 1)
             ELSE <<[first |-> p, last |-> m[1] - 1, label |-> m[2], url |-> m[3]]>>
                  \o LinkTokensFrom(s, m[1])

\* s without the characters at the positions of drop.
RECURSIVE Without(_, _, _)
Without(s, drop, i) ==
    IF i > Len(s) THEN <<>>
    ELSE (IF i \in drop THEN <<>> ELSE <<s[i]>>) \o Without(s, drop, i + 1)

RECURSIVE LinkLinesOf(_)
LinkLinesOf(toks) ==
    IF toks = <<>> THEN <<>>
    ELSE <<NL, "=", ">", " ">> \o toks[1].url \o <<" ">> \o toks[1].label
         \o LinkLinesOf(Tail(toks))

\* C3: convert_links removes every '[label](url)' token, joins what is left
\* in order with no separator and, when a link matched, appends a newline and
\* one '=> url label' line per link in source order; with no link the text
\* comes back unchanged.
C3_LinkRelocation ==
    lpc = "done" =>
        LET toks == LinkTokensFrom(text, 1)
            inside == {i \in 1..Len(text) :
                          \E j \in 1..Len(toks) : toks[j].first <= i /\ i <= toks[j].last}
        IN  /\ toks = <<>> => final_text = text
            /\ toks # <<>> => final_text = Without(text, inside, 1) \o LinkLinesOf(toks)

\* Two links with plain text around them have been converted.
C3_Witness ==
    /\ lpc = "done"
    /\ Len(LinkTokensFrom(text, 1)) = 2
    /\ text[1] = "x" /\ text[Len(text)] = "x"

(***************************************************************************)
(* SpecSplit: parse_frontmatter applied to one text                        *)
(***************************************************************************)
MaxRawLen == 8
RawChars == {"-", "y", " "}
RawTexts == SeqsUpTo(RawChars, MaxRawLen)

T_ == <<"T">>
\* What yaml.safe_load may answer for a block: None for a blank one (an
\* empty document), and else an error, None (a comment), a mapping, a
\* sequence, a plain scalar or a number.
YamlAnswers(block, maps) ==
    IF Strip(block) = <<>> THEN {None}
    ELSE {YAMLError, None, List(1), List(0), Str(<<"y">>), PyInt(0), PyInt(1)}
         \cup {Dict(m) : m \in maps}

SplitMaps == {<<>>, [title |-> Str(T_)]}

InitSplit ==
    /\ raw \in RawTexts
    /\ yaml_answer \in (IF CallsYaml(raw) THEN YamlAnswers(YamlBlock(raw), SplitMaps)
                                          ELSE {Unused})
    /\ split_result = <<>> /\ spc = "call"
    /\ LinkIdle /\ ConvIdle /\ IndexIdle /\ BatchIdle

ParseFrontmatter ==
    /\ spc = "call"
    /\ split_result' = parse_frontmatter(raw, yaml_answer)
    /\ spc' = "done"
    /\ UNCHANGED <<raw, yaml_answer, linkVars, convVars, indexVars, batchVars>>

NextSplit == ParseFrontmatter
SpecSplit == InitSplit /\ [][NextSplit]_vars

\* The number of '---' delimiters of s, read from the left, none overlapping
\* an earlier one.
RECURSIVE Delimiters(_, _)
Delimiters(s, p) ==
    IF p + 2 > Len(s) THEN 0
    ELSE IF s[p] = "-" /\ s[p + 1] = "-" /\ s[p + 2] = "-" THEN 1 + Delimiters(s, p + 3)
    ELSE Delimiters(s, p + 1)

\* C7 as stated: a text that begins with '---' and holds invalid YAML or
\* fewer than two '---' delimiters after the opening one comes back as
\* ({}, the whole text).
C7_AsStated ==
    (/\ spc = "done"
     /\ StartsWith(raw, Delim)
     /\ (yaml_answer = YAMLError \/ Delimiters(raw, 4) < 2))
    => split_result = <<EmptyDict, raw>>

\* C7 amended: a text that begins with '---' and holds invalid YAML or no
\* '---' delimiter after the opening one comes back as ({}, the whole
\* text), neither truncated nor trimmed.
C7_MalformedFrontmatter ==
    (/\ spc = "done"
     /\ StartsWith(raw, Delim)
     /\ (yaml_answer = YAMLError \/ Delimiters(raw, 4) < 1))
    => split_result = <<EmptyDict, raw>>

\* A block of invalid YAML between two delimiters, the text after them with
\* a blank at its end, has been split.
C7_Witness ==
    /\ spc = "done"
    /\ yaml_answer = YAMLError
    /\ raw[Len(raw)] = " "
    /\ Delimiters(raw, 1) = 2

(***************************************************************************)
(* SpecConvert: convert_markdown_to_gemtext on one document                *)
(***************************************************************************)
MaxBodyLines == 2

\* The lines the bodies are made of: blank and plain text, fences (bare, with
\* a language, indented), headers of one to five '#', with and without text,
\* lines with a shortcode that are also a header, a list item, a blockquote
\* or bold, and lines with inline formatting and a link.
SampleLines ==
    { <<>>,
      <<"a">>,
      <<" ", "a", " ">>,
      <<BQ, BQ, BQ>>,
      <<BQ, BQ, BQ, "a">>,
      <<" ", BQ, BQ, BQ>>,
      <<"a", BQ, BQ, BQ>>,
      <<"#", " ", "a">>,
      <<"#", "#", " ", "a">>,
      <<"#", "#", "#", " ", "a">>,
      <<"#", "#", "#", "#", " ", "a">>,
      <<"#", "#", "#", "#", "#", " ", "a">>,
      <<"#", "a">>,
      <<"#">>,
      <<"#", "#">>,
      <<"#", " ", " ">>,
      <<"#", " ", "{", "{", "<">>,
      <<"{", "{", "<", " ", "a">>,
      <<"a", " ", "{", "{", "%", " ", "a">>,
      <<"-", " ", "{", "{", "<">>,
      <<">", " ", "{", "{", "<">>,
      <<"*", "*", "{", "{", "%", "*", "*">>,
      <<"*", "*", "a", "*", "*">>,
      <<"-", " ", "a">>,
      <<"*", " ", "*", "a", "*">>,
      <<">", " ", "a">>,
      <<"a", "[", "a", "]", "(", "u", ")", "b">>,
      <<"*", "a", "*", " ", BQ, "b", BQ>>,
      <<":", "b", ":", "a">> }
BodyTexts == {Join(ls, <<NL>>) : ls \in SeqsUpTo(SampleLines, MaxBodyLines)}

\* Documents with a frontmatter block: '---', the block, '---' and a body.
FrontBodies == {<<>>, <<NL, "a">>, <<NL, " ", "a", " ", NL>>, <<NL, "#", " ", "a", NL, NL, "a">>}
FrontTexts == {Delim \o <<"y">> \o Delim \o b : b \in FrontBodies}

\* The mappings yaml.safe_load answers: each of title, date and summary
\* missing, null, empty or set; a date as a str, a date or a datetime.
Day == <<"2", "0", "2", "4", "-", "0", "1", "-", "0", "2">>
Clock == <<"1", "0", ":", "0", "0", ":", "0", "0">>
TitleValues == {None, Str(<<>>), Str(<<"T">>)}
DateValues == {None, Str(<<>>), Str(Day), Date(Day), DateTime(Day, Clock)}
SummaryValues == {None, Str(<<>>), Str(<<"S">>)}
FieldMaps(key, values) == {<<>>} \cup {[x \in {key} |-> v] : v \in values}
ConvMaps ==
    {t @@ d @@ m : t \in FieldMaps("title", TitleValues),
                   d \in FieldMaps("date", DateValues),
                   m \in FieldMaps("summary", SummaryValues)}

InitConvert ==
    /\ content \in BodyTexts \cup FrontTexts
    /\ doc_yaml \in (IF CallsYaml(content) THEN YamlAnswers(YamlBlock(content), ConvMaps)
                                          ELSE {Unused})
    /\ frontmatter = Unused /\ body = <<>> /\ body_lines = <<>> /\ lines = <<>>
    /\ in_code_block = FALSE /\ idx = 0 /\ cpc = "parse"
    /\ LinkIdle /\ SplitIdle /\ IndexIdle /\ BatchIdle

convFrame == <<content, doc_yaml, linkVars, splitVars, indexVars, batchVars>>

\* Line 68.
Parse ==
    /\ cpc = "parse"
    /\ frontmatter' = parse_frontmatter(content, doc_yaml)[1]
    /\ body' = parse_frontmatter(content, doc_yaml)[2]
    /\ cpc' = "title"
    /\ UNCHANGED <<body_lines, lines, in_code_block, idx, convFrame>>

\* frontmatter.get on anything but a dict: AttributeError, which nothing
\* catches.
Raises ==
    /\ cpc = "title"
    /\ frontmatter.t # "dict"
    /\ cpc' = "raised"
    /\ UNCHANGED <<frontmatter, body, body_lines, lines, in_code_block, idx, convFrame>>

\* Lines 73-75.
AddTitle ==
    /\ cpc = "title"
    /\ frontmatter.t = "dict"
    /\ lines' = lines \o TitleBlock(frontmatter)
    /\ cpc' = "date"
    /\ UNCHANGED <<frontmatter, body, body_lines, in_code_block, idx, convFrame>>

\* Lines 78-83.
AddDate ==
    /\ cpc = "date"
    /\ lines' = lines \o DateBlock(frontmatter)
    /\ cpc' = "summary"
    /\ UNCHANGED <<frontmatter, body, body_lines, in_code_block, idx, convFrame>>

\* Lines 86-94.
AddSummary ==
    /\ cpc = "summary"
    /\ lines' = lines \o SummaryBlock(frontmatter)
    /\ body_lines' = Split(body, <<NL>>, Len(body))
    /\ in_code_block' = FALSE
    /\ idx' = 0
    /\ cpc' = "loop"
    /\ UNCHANGED <<frontmatter, body, convFrame>>

\* What an iteration of the loop of line 94 does when it takes the branch
\* kind.
Iterate(kind) ==
    /\ lines' = lines \o Emitted(kind, Line)
    /\ in_code_block' = IF kind = "fence" THEN ~in_code_block ELSE in_code_block
    /\ idx' = idx + 1
    /\ UNCHANGED <<frontmatter, body, body_lines, cpc, convFrame>>

\* Lines 96-103.
FenceLine ==
    /\ InLoop
    /\ Classify(Line, in_code_block) = "fence"
    /\ Iterate("fence")

\* Lines 105-107.
CodeLine ==
    /\ InLoop
    /\ Classify(Line, in_code_block) = "code"
    /\ Iterate("code")

\* Lines 110-111.
ShortcodeLine ==
    /\ InLoop
    /\ Classify(Line, in_code_block) = "shortcode"
    /\ Iterate("shortcode")

\* Lines 114-121.
HeaderLine ==
    /\ InLoop
    /\ Classify(Line, in_code_block) = "header"
    /\ Iterate("header")

\* Lines 124-127.
BoldHeaderLine ==
    /\ InLoop
    /\ Classify(Line, in_code_block) = "bold"
    /\ Iterate("bold")

\* Lines 130-137.
ListItemLine ==
    /\ InLoop
    /\ Classify(Line, in_code_block) = "list"
    /\ Iterate("list")

\* Lines 140-143.
BlockquoteLine ==
    /\ InLoop
    /\ Classify(Line, in_code_block) = "blockquote"
    /\ Iterate("blockquote")

\* Lines 146-155.
TextLine ==
    /\ InLoop
    /\ Classify(Line, in_code_block) = "text"
    /\ Iterate("text")

\* Line 157: the loop is over.
Return ==
    /\ cpc = "loop"
    /\ idx = Len(BodyLines)
    /\ cpc' = "done"
    /\ UNCHANGED <<frontmatter, body, body_lines, lines, in_code_block, idx, convFrame>>

NextConvert ==
    \/ Parse \/ Raises \/ AddTitle \/ AddDate \/ AddSummary
    \/ FenceLine \/ CodeLine \/ ShortcodeLine \/ HeaderLine \/ BoldHeaderLine
    \/ ListItemLine \/ BlockquoteLine \/ TextLine \/ Return
SpecConvert == InitConvert /\ [][NextConvert]_vars

\* The number of fence lines among the first n lines of the body.
FencesBefore(n) == Cardinality({j \in 1..n : IsFence(BodyLines[j])})
InsideFences(n) == FencesBefore(n) % 2 = 1

\* C1: the flag is 'outside' when the loop starts and changes only on a fence
\* line; a line that is no fence line and has an odd number of fence lines
\* before it is appended as it is, as one output line.
C1_CodeBlockOpacity ==
    /\ [](cpc = "loop" /\ idx = 0 => ~in_code_block)
    /\ [][InLoop =>
            /\ in_code_block' # in_code_block => IsFence(Line)
            /\ (~IsFence(Line) /\ InsideFences(idx)) =>
                   /\ lines' = Append(lines, Line)
                   /\ \A j \in 1..Len(Line) : Line[j] # NL]_vars

\* After a fence line, a line with blanks around it that reads as a header
\* has been appended unchanged.
C1_Witness ==
    /\ cpc = "loop" /\ idx = 2 /\ in_code_block
    /\ IsFence(BodyLines[1])
    /\ \E l \in {<<"#", " ", "a">>, <<" ", "a", " ">>, <<"{", "{", "<", " ", "a">>} :
           BodyLines[2] = l /\ lines = <<Fence, l>>

\* C2 as stated: outside a code block (and with no shortcode on the line) a
\* line of one to three '#' and a text after them is emitted as a header of
\* as many '#', and a line of four or more '#' is handled as regular text.
C2_AsStated ==
    [][(InLoop /\ ~IsFence(Line) /\ ~InsideFences(idx) /\ ~HasShortcode(Line)) =>
          LET h == RunLen(Line, 1, {"#"})
              out == lines'[Len(lines')]
          IN  /\ (h \in 1..3 /\ h < Len(Line)) =>
                     /\ Len(lines') = Len(lines) + 1
                     /\ StartsWith(out, Hashes(h) \o <<" ">>)
                     /\ RunLen(out, 1, {"#"}) = h
              /\ h >= 4 => lines' = Append(lines, RegularText(Line))]_vars

\* C4: outside a code block a line that is no fence line and holds '{{<' or
\* '{{%' adds nothing to the output, whatever else it reads as; inside a code
\* block it is kept.
C4_ShortcodeLineDeletion ==
    [][(InLoop /\ ~IsFence(Line) /\ HasShortcode(Line)) =>
          IF InsideFences(idx) THEN lines' = Append(lines, Line)
                               ELSE lines' = lines]_vars

\* A header line with a shortcode has been dropped after a line of text.
C4_Witness ==
    /\ cpc = "loop" /\ idx = 2
    /\ BodyLines[1] = <<"a">>
    /\ BodyLines[2] = <<"#", " ", "{", "{", "<">>
    /\ lines = << <<"a">> >>

\* A field is present and non-empty: its key is there and its value is
\* neither null nor the empty string.
Present(fm, key) ==
    /\ key \in DOMAIN fm.m
    /\ fm.m[key] # None
    /\ fm.m[key] # Str(<<>>)
\* The value as the output shows it: a date as YYYY-MM-DD.
Shown(v) == IF v.t = "str" THEN v.v ELSE v.day
ExpectedPreamble(fm) ==
    (IF Present(fm, "title") THEN << <<"#", " ">> \o Shown(fm.m.title), <<>> >> ELSE <<>>)
    \o (IF Present(fm, "date")
        THEN << <<"D", "a", "t", "a", ":", " ">> \o Shown(fm.m.date), <<>> >> ELSE <<>>)
    \o (IF Present(fm, "summary") THEN << Shown(fm.m.summary), <<>> >> ELSE <<>>)

\* C5: the output begins with '# title', 'Data: date', summary, in that
\* order, each followed by one blank line and each there exactly when its
\* field is present and non-empty; the converted body follows directly.
C5_Preamble ==
    cpc \in {"loop", "done"} =>
        LET pre == ExpectedPreamble(frontmatter)
        IN  /\ Len(lines) >= Len(pre)
            /\ SubSeq(lines, 1, Len(pre)) = pre
            /\ idx = 0 => lines = pre

\* A document with a title, a datetime and a summary has been converted.
C5_Witness ==
    /\ cpc = "done"
    /\ frontmatter.t = "dict"
    /\ DOMAIN frontmatter.m = {"title", "date", "summary"}
    /\ frontmatter.m.title = Str(<<"T">>)
    /\ frontmatter.m.date = DateTime(Day, Clock)
    /\ frontmatter.m.summary = Str(<<"S">>)
    /\ Len(lines) > 6

\* C6 as stated: whatever the block between the delimiters holds, the
\* frontmatter is a mapping and the preamble is built without an error.
C6_AsStated ==
    /\ cpc # "raised"
    /\ cpc \notin {"idle", "parse"} => frontmatter.t = "dict"

(***************************************************************************)
(* SpecIndex: create_gemini_index over the entries of content/blog         *)
(***************************************************************************)
MaxEntries == 3

D1 == <<"2", "0", "2", "4", "-", "0", "3", "-", "0", "1">>
D2 == <<"2", "0", "2", "4", "-", "0", "1", "-", "1", "5">>
D3 == <<"2", "0", "2", "4", "-", "0", "2", "-", "2", "0">>
EntryName(i) == <<"p", CASE i = 1 -> "1" [] i = 2 -> "2" [] i = 3 -> "3" [] i = 4 -> "4"
                            [] OTHER -> "5">>

\* What blog_path.iterdir() may yield: a file, a directory without an
\* index.md, or a post's directory, with the content of its index.md and what
\* yaml.safe_load answers for its frontmatter block.
PostAnswers ==
    { Dict(<<>>), Dict([date |-> Str(D1)]), Dict([date |-> Str(D2)]),
      Dict([date |-> Date(D3)]), Dict([date |-> DateTime(D1, Clock)]),
      Dict([date |-> Str(<<>>)]), Dict([date |-> None]),
      Dict([title |-> Str(<<"T">>), date |-> Str(D3)]), None, List(1), YAMLError }
EntryKinds ==
    { [kind |-> "file"], [kind |-> "dir"],
      [kind |-> "post", content |-> <<"a">>, yaml |-> Unused] }
    \cup { [kind |-> "post", content |-> Delim \o <<"y">> \o Delim, yaml |-> y] :
             y \in PostAnswers }

\* blog_path.iterdir(), in the order the file system gives; a missing blog
\* directory is the empty listing.
InitIndex ==
    /\ dir_listing \in SeqsUpTo(EntryKinds, MaxEntries)
    /\ di = 0 /\ posts = <<>> /\ index_file = <<>> /\ ipc = "scan"
    /\ LinkIdle /\ SplitIdle /\ ConvIdle /\ BatchIdle

indexFrame == <<dir_listing, linkVars, splitVars, convVars, batchVars>>
Entry == dir_listing[di + 1]
Scanning == ipc = "scan" /\ di < Len(dir_listing)
EntryFrontmatter == parse_frontmatter(Entry.content, Entry.yaml)[1]

\* Lines 225-227: not a directory, or no index.md in it.
SkipEntry ==
    /\ Scanning
    /\ Entry.kind # "post"
    /\ di' = di + 1
    /\ UNCHANGED <<posts, index_file, ipc, indexFrame>>

\* Lines 228-241.
ReadPost ==
    /\ Scanning
    /\ Entry.kind = "post"
    /\ EntryFrontmatter.t = "dict"
    /\ posts' = Append(posts, PostEntry(EntryName(di + 1), EntryFrontmatter))
    /\ di' = di + 1
    /\ UNCHANGED <<index_file, ipc, indexFrame>>

\* Line 232: frontmatter.get on anything but a dict raises AttributeError.
ReadPostRaises ==
    /\ Scanning
    /\ Entry.kind = "post"
    /\ EntryFrontmatter.t # "dict"
    /\ ipc' = "raised"
    /\ UNCHANGED <<di, posts, index_file, indexFrame>>

\* Lines 244-253.
SortAndWrite ==
    /\ ipc = "scan"
    /\ di = Len(dir_listing)
    /\ posts' = SortByDateReverse(posts, <<>>)
    /\ index_file' = IndexHeader \o [j \in 1..Len(posts) |-> PostLine(posts'[j])]
    /\ ipc' = "done"
    /\ UNCHANGED <<di, indexFrame>>

NextIndex == SkipEntry \/ ReadPost \/ ReadPostRaises \/ SortAndWrite
SpecIndex == InitIndex /\ [][NextIndex]_vars

\* The posts of the listing, by position, and whether one has a date key.
PostPositions == {i \in 1..Len(dir_listing) : dir_listing[i].kind = "post"}
HasDate(i) ==
    LET fm == parse_frontmatter(dir_listing[i].content, dir_listing[i].yaml)[1]
    IN  "date" \in DOMAIN fm.m
PathOf(i) == <<"b", "l", "o", "g", "/">> \o EntryName(i) \o <<".", "g", "m", "i">>

\* C8: the post lines of index.gmi are in descending order of their date
\* strings, every post is listed once, and a post without a date is listed
\* with an empty date after every post whose date is not empty.
C8_IndexOrder ==
    ipc = "done" =>
        /\ index_file = IndexHeader \o [j \in 1..Len(posts) |-> PostLine(posts[j])]
        /\ \A j \in 1..(Len(posts) - 1) : ~StrLess(posts[j].date, posts[j + 1].date)
        /\ Len(posts) = Cardinality(PostPositions)
        /\ \A i \in PostPositions : \E j \in 1..Len(posts) : posts[j].path = PathOf(i)
        /\ \A i \in PostPositions : ~HasDate(i) =>
               \E j \in 1..Len(posts) :
                   /\ posts[j].path = PathOf(i)
                   /\ posts[j].date = <<>>
                   /\ \A m \in 1..Len(posts) : posts[m].date # <<>> => m < j

\* Three posts, the second without a date and the newest last in the
\* listing, have been listed.
C8_Witness ==
    /\ ipc = "done"
    /\ Len(posts) = 3
    /\ ~HasDate(2)
    /\ posts[1].path = PathOf(3)
    /\ posts[3].path = PathOf(2)
    /\ posts[1].date # posts[2].date

(***************************************************************************)
(* SpecBatch: process_hugo_content over the Markdown files of a tree       *)
(***************************************************************************)
MaxFiles == 3

\* Paths relative to content_path: index.md, _index.md, a.md, a/index.md,
\* index/index.md, blog/p/index.md, a.b/index.md.
MdFiles ==
    { << <<"i", "n", "d", "e", "x", ".", "m", "d">> >>,
      << <<"_", "i", "n", "d", "e", "x", ".", "m", "d">> >>,
      << <<"a", ".", "m", "d">> >>,
      << <<"a">>, <<"i", "n", "d", "e", "x", ".", "m", "d">> >>,
      << <<"i", "n", "d", "e", "x">>, <<"i", "n", "d", "e", "x", ".", "m", "d">> >>,
      << <<"b", "l", "o", "g">>, <<"p">>, <<"i", "n", "d", "e", "x", ".", "m", "d">> >>,
      << <<"a", ".", "b">>, <<"i", "n", "d", "e", "x", ".", "m", "d">> >> }

\* content_path.rglob('*.md'): the files of the tree, each once, in the order
\* the file system gives.
Walks == {w \in SeqsUpTo(MdFiles, MaxFiles) : \A i, j \in 1..Len(w) : i # j => w[i] # w[j]}

InitBatch ==
    /\ walk \in Walks
    /\ k = 0 /\ handles = {} /\ doc = <<>> /\ gem_path = <<>>
    /\ out_files = <<>> /\ processed = 0 /\ printed = <<>> /\ raised = "none"
    /\ bpc = "mkdir"
    /\ LinkIdle /\ SplitIdle /\ ConvIdle /\ IndexIdle

batchFrame == <<walk, linkVars, splitVars, convVars, indexVars>>
md_file == walk[k + 1]
AtFile == k < Len(walk)

\* An exception nothing catches ends the run; the with block it passes
\* closes its file.
Raise(exception) ==
    /\ raised' = exception
    /\ bpc' = "raised"
    /\ handles' = {}
    /\ UNCHANGED <<k, doc, gem_path, out_files, processed, printed, batchFrame>>

\* Line 166.
MakeOutputDir ==
    /\ bpc = "mkdir"
    /\ bpc' = "loop"
    /\ UNCHANGED <<k, handles, doc, gem_path, out_files, processed, printed, raised, batchFrame>>

MakeOutputDirFails ==
    /\ bpc = "mkdir"
    /\ Raise("OSError")

\* Lines 173-174.
SkipSectionPage ==
    /\ bpc = "loop" /\ AtFile
    /\ Name(md_file) = SectionMd
    /\ k' = k + 1
    /\ UNCHANGED <<handles, doc, gem_path, out_files, processed, printed, raised, bpc, batchFrame>>

\* Line 177: open(md_file, 'r').
OpenSource ==
    /\ bpc = "loop" /\ AtFile
    /\ Name(md_file) # SectionMd
    /\ handles' = handles \cup {[mode |-> "r", path |-> md_file]}
    /\ bpc' = "read"
    /\ UNCHANGED <<k, doc, gem_path, out_files, processed, printed, raised, batchFrame>>

OpenSourceFails ==
    /\ bpc = "loop" /\ AtFile
    /\ Name(md_file) # SectionMd
    /\ Raise("OSError")

\* Line 178 and the end of the with block.
ReadSource ==
    /\ bpc = "read"
    /\ doc' = <<md_file>>
    /\ handles' = CloseOnExit(handles, [mode |-> "r", path |-> md_file])
    /\ bpc' = "convert"
    /\ UNCHANGED <<k, gem_path, out_files, processed, printed, raised, batchFrame>>

ReadSourceFails ==
    /\ bpc = "read"
    /\ Raise("OSError")

\* Line 181: convert_markdown_to_gemtext returns, or raises for a document
\* whose frontmatter is no mapping.
Convert ==
    /\ bpc = "convert"
    /\ bpc' = "path"
    /\ UNCHANGED <<k, handles, doc, gem_path, out_files, processed, printed, raised, batchFrame>>

ConvertRaises ==
    /\ bpc = "convert"
    /\ Raise("AttributeError")

\* Lines 184-190.
OutputPath ==
    /\ bpc = "path"
    /\ ~GemPathRaises(md_file)
    /\ gem_path' = GemPath(md_file)
    /\ bpc' = "open"
    /\ UNCHANGED <<k, handles, doc, out_files, processed, printed, raised, batchFrame>>

OutputPathRaises ==
    /\ bpc = "path"
    /\ GemPathRaises(md_file)
    /\ Raise("ValueError")

\* Lines 193-196: mkdir and open(gem_path, 'w'), which empties the file.
OpenOutput ==
    /\ bpc = "open"
    /\ handles' = handles \cup {[mode |-> "w", path |-> gem_path]}
    /\ out_files' = Put(out_files, gem_path, [from |-> <<>>, complete |-> FALSE])
    /\ bpc' = "write"
    /\ UNCHANGED <<k, doc, gem_path, processed, printed, raised, batchFrame>>

OpenOutputFails ==
    /\ bpc = "open"
    /\ Raise("OSError")

\* Lines 197-200 and the end of the with block.
WriteOutput ==
    /\ bpc = "write"
    /\ out_files' = Put(out_files, gem_path, [from |-> doc[1], complete |-> TRUE])
    /\ handles' = CloseOnExit(handles, [mode |-> "w", path |-> gem_path])
    /\ printed' = Append(printed, [what |-> "Converted", md |-> md_file, gem |-> gem_path])
    /\ processed' = processed + 1
    /\ k' = k + 1
    /\ bpc' = "loop"
    /\ UNCHANGED <<doc, gem_path, raised, batchFrame>>

WriteOutputFails ==
    /\ bpc = "write"
    /\ Raise("OSError")

\* Line 203: create_gemini_index writes index.gmi and prints.
CreateIndex ==
    /\ bpc = "loop" /\ ~AtFile
    /\ out_files' = Put(out_files, IndexGmi, [from |-> IndexGmi, complete |-> TRUE])
    /\ printed' = Append(printed, [what |-> "Created index", gem |-> IndexGmi])
    /\ bpc' = "total"
    /\ UNCHANGED <<k, handles, doc, gem_path, processed, raised, batchFrame>>

\* Reading a post or opening index.gmi fails.
CreateIndexFails ==
    /\ bpc = "loop" /\ ~AtFile
    /\ Raise("OSError")

\* Line 205.
PrintTotal ==
    /\ bpc = "total"
    /\ printed' = Append(printed, [what |-> "Total", count |-> processed])
    /\ bpc' = "done"
    /\ UNCHANGED <<k, handles, doc, gem_path, out_files, processed, raised, batchFrame>>

NextBatch ==
    \/ MakeOutputDir \/ MakeOutputDirFails \/ SkipSectionPage
    \/ OpenSource \/ OpenSourceFails \/ ReadSource \/ ReadSourceFails
    \/ Convert \/ ConvertRaises \/ OutputPath \/ OutputPathRaises
    \/ OpenOutput \/ OpenOutputFails \/ WriteOutput \/ WriteOutputFails
    \/ CreateIndex \/ CreateIndexFails \/ PrintTotal
SpecBatch == InitBatch /\ [][NextBatch]_vars

\* What the run has printed: the files converted, the index, the total.
ConvertedAt == {j \in 1..Len(printed) : printed[j].what = "Converted"}
IndexAt == {j \in 1..Len(printed) : printed[j].what = "Created index"}
TotalAt == {j \in 1..Len(printed) : printed[j].what = "Total"}
ToConvert == {i \in 1..Len(walk) : Name(walk[i]) # SectionMd}

\* C9: a file's output is opened only when the file has been read and
\* closed; the index is written after every Markdown file that is not
\* skipped has been converted and written, and the total is printed after
\* the index; a failed read or write ends the run: no later file is
\* converted, no index is written, no total is printed.
C9_BatchAbortOrdering ==
    /\ \A h \in handles : h.mode = "w" => handles = {h} /\ doc = <<md_file>>
    /\ \A x \in IndexAt : \A i \in ToConvert :
           \E j \in ConvertedAt : j < x /\ printed[j].md = walk[i]
    /\ \A t \in TotalAt : \E x \in IndexAt : x < t
    /\ raised # "none" =>
           /\ IndexAt = {} /\ TotalAt = {}
           /\ \A f \in DOMAIN out_files : out_files[f].from # IndexGmi
           /\ \A j \in ConvertedAt : \E i \in 1..k : printed[j].md = walk[i]
           /\ ~ENABLED NextBatch

\* The write of the second of three files has failed.
C9_Witness ==
    /\ raised = "OSError"
    /\ Len(walk) = 3 /\ k = 1 /\ processed = 1
    /\ doc = <<walk[2]>>
    /\ gem_path \in DOMAIN out_files /\ ~out_files[gem_path].complete
    /\ ToConvert = {1, 2, 3}

\* C10 as stated: no two converted files are written to the same path, none
\* is written to the root index.gmi, and the output path of each is defined.
C10_AsStated ==
    /\ raised # "ValueError"
    /\ \A i, j \in ConvertedAt : i # j => printed[i].gem # printed[j].gem
    /\ \A j \in ConvertedAt : printed[j].gem # IndexGmi

====
